---- MODULE Spec2Model ----
(***************************************************************************)
(* Schema retrieval subsystem of textToSql: SchemaService (catalog,        *)
(* persisted FAISS index, validity check) and VectorSearch (search with    *)
(* keyword fallback).                                                      *)
(*                                                                         *)
(* Strings are TLA+ strings; Len, SubSeq and \o act on them as on Python   *)
(* str.  A process is one Python interpreter holding the module-level      *)
(* engine object `schema_search` of main.py; the three index files are     *)
(* shared by all processes started in the same working directory.          *)
(***************************************************************************)
EXTENDS Integers, Sequences, FiniteSets, TLC

VARIABLES
    table_names,     \* [Procs -> Seq(STRING)]   self.table_names
    table_data,      \* [Procs -> Seq(STRING)]   self.table_data
    index,           \* [Procs -> index object]  self.index
    idxFile,         \* VECTOR_INDEX_FILE  (faiss_index.bin)
    namesFile,       \* VECTOR_NAMES_FILE  (table_names.json)
    descFile,        \* VECTOR_DESC_FILE   (table_descriptions.json)
    pc,              \* [Procs -> position inside load_schema_data]
    schema_json,     \* [Procs -> argument of the running load_schema_data]
    local,           \* [Procs -> locals of the running load_schema_data]
    outcome,         \* [Procs -> how the last load_schema_data call ended]
    calls,           \* load_schema_data calls started so far
    faults,          \* failures and file removals so far
    result,          \* the last call of search and what it returned
    sthread,         \* a call of search running on a thread of its own
    schema_loaded,   \* main.py: the global schema_loaded of the serving process
    schemaFile,      \* SCHEMA_FILE  (table_details.json)
    handler          \* the request being handled by main.py, and its position

vars == <<table_names, table_data, index, idxFile, namesFile, descFile,
          pc, schema_json, local, outcome, calls, faults, result, sthread,
          schema_loaded, schemaFile, handler>>

-----------------------------------------------------------------------------
(* Bounds *)

\* load_schema_data calls per run, over all processes
MaxLoads == 3
\* failing collaborator calls and removed files per run
MaxFaults == 1

-----------------------------------------------------------------------------
(* Processes sharing the working directory (uvicorn workers, or the API  *)
(* next to a second start of it).                                          *)

Procs == {1, 2}

-----------------------------------------------------------------------------
(* Raw schema metadata: {table_name -> [columns]}.  A Python dict keeps    *)
(* insertion order and has unique keys, so a schema is a sequence of       *)
(* <<name, columns>> entries with pairwise distinct names.                 *)

Col(n, t, nl) == [column_name |-> n, data_type |-> t, nullable |-> nl]

UsersCols == <<Col("id", "NUMBER", "N"), Col("email", "VARCHAR2", "Y")>>
\* the same table after its email column became NOT NULL
UsersColsChanged == <<Col("id", "NUMBER", "N"), Col("email", "VARCHAR2", "N")>>
OrdersCols == <<Col("order_id", "NUMBER", "N"), Col("user_id", "NUMBER", "N")>>

Entry(n, cols) == [table_name |-> n, columns |-> cols]

\* The catalogs a load is called with: the empty one, one table, the same
\* table with a changed description, a table added, and the same two tables
\* in the other order.
Schemas ==
    { <<>>,
      <<Entry("USERS", UsersCols)>>,
      <<Entry("USERS", UsersColsChanged)>>,
      <<Entry("USERS", UsersCols), Entry("ORDERS", OrdersCols)>>,
      <<Entry("ORDERS", OrdersCols), Entry("USERS", UsersCols)>> }

\* The query strings a search is called with.
Queries == {"", "user", "find user email", "ORDERS", "id Email email"}

-----------------------------------------------------------------------------
(* SchemaService.load_schema_data, lines 28-37: description rendering *)

RECURSIVE Join(_, _)
Join(sep, parts) ==
    IF parts = <<>> THEN ""
    ELSE IF Len(parts) = 1 THEN parts[1]
    ELSE parts[1] \o sep \o Join(sep, Tail(parts))

ColumnDescription(col) ==
    col.column_name \o " (" \o col.data_type \o ", "
        \o (IF col.nullable = "Y" THEN "NULL" ELSE "NOT NULL") \o ")"

TableDesc(table_name, columns) ==
    "Table " \o table_name \o " with columns: "
        \o Join(", ", [i \in 1..Len(columns) |-> ColumnDescription(columns[i])])

\* the catalog snapshot a complete pass of the loop leaves in the engine
NamesOf(schema) == [i \in 1..Len(schema) |-> schema[i].table_name]
DescsOf(schema) ==
    [i \in 1..Len(schema) |-> TableDesc(schema[i].table_name, schema[i].columns)]

-----------------------------------------------------------------------------
(* LocalEmbedder.encode: one vector per text, order preserved.  A vector   *)
(* is a function of its text alone; it is represented by that text.        *)

Vec(text) == [embedding_of |-> text]
Encode(texts) == [i \in 1..Len(texts) |-> Vec(texts[i])]

(* Index objects: None, or a flat index holding a sequence of vectors. *)
None == [kind |-> "None", vecs |-> <<>>]
IndexFlatIP(vecs) == [kind |-> "IndexFlatIP", vecs |-> vecs]
Ntotal(ix) == Len(ix.vecs)

(* Files: absent, unreadable (truncated or garbled), or holding a value. *)
Absent == [kind |-> "absent", data |-> <<>>]
Corrupt == [kind |-> "corrupt", data |-> <<>>]
File(data) == [kind |-> "file", data |-> data]

Exists(f) == f.kind # "absent"
Readable(f) == f.kind = "file"

ToSet(s) == { s[i] : i \in 1..Len(s) }

-----------------------------------------------------------------------------
(* SchemaService._is_index_valid, lines 50-71 *)

\* line 52
AllExist(ixf, nf, df) == Exists(ixf) /\ Exists(nf) /\ Exists(df)

\* (mutant) the descriptions are not compared
SidecarMismatchNamesOnly(existing_names, existing_descriptions, names, data) ==
    \/ Len(existing_names) # Len(names)
    \/ ToSet(existing_names) # ToSet(names)

\* (mutant) the names are compared as lists, in order
SidecarMismatchOrdered(existing_names, existing_descriptions, names, data) ==
    \/ existing_names # names
    \/ existing_descriptions # data

\* lines 62-65: TRUE when the sidecars disagree with the engine's catalog
SidecarMismatch(existing_names, existing_descriptions, names, data) ==
    \/ Len(existing_names) # Len(names)
    \/ ToSet(existing_names) # ToSet(names)
    \/ existing_descriptions # data

\* The whole check against one reading of the three files.  Every open,
\* json.load and faiss.read_index sits inside `try`, so an unreadable file
\* is the `except Exception: return False` branch.
IsIndexValid(ixf, nf, df, names, data) ==
    IF ~AllExist(ixf, nf, df) THEN FALSE
    ELSE IF ~Readable(nf) THEN FALSE
    ELSE IF ~Readable(df) THEN FALSE
    ELSE IF SidecarMismatch(nf.data, df.data, names, data) THEN FALSE
    ELSE IF ~Readable(ixf) THEN FALSE
    ELSE Len(ixf.data) = Len(names)

-----------------------------------------------------------------------------
(* Python str and list operations used by VectorSearch *)

UpperCase == "ABCDEFGHIJKLMNOPQRSTUVWXYZ"
LowerCase == "abcdefghijklmnopqrstuvwxyz"

LowerChar(c) ==
    IF \E i \in 1..Len(UpperCase) : SubSeq(UpperCase, i, i) = c
    THEN LET i == CHOOSE j \in 1..Len(UpperCase) : SubSeq(UpperCase, j, j) = c
         IN SubSeq(LowerCase, i, i)
    ELSE c

\* str.lower()
RECURSIVE Lower(_)
Lower(str) ==
    IF str = "" THEN ""
    ELSE LowerChar(SubSeq(str, 1, 1)) \o Lower(SubSeq(str, 2, Len(str)))

\* `a in b` on str: a occurs in b as a substring ('' occurs in every str)
In(a, b) == \E i \in 0..(Len(b) - Len(a)) : SubSeq(b, i + 1, i + Len(a)) = a

IsSpace(c) == c \in {" ", "\t", "\n", "\r"}

\* str.split(): maximal runs of non-whitespace characters
RECURSIVE SplitFrom(_, _, _)
SplitFrom(str, i, word) ==
    LET done == IF word = "" THEN <<>> ELSE <<word>>
    IN IF i > Len(str) THEN done
       ELSE IF IsSpace(SubSeq(str, i, i)) THEN done \o SplitFrom(str, i + 1, "")
       ELSE SplitFrom(str, i + 1, word \o SubSeq(str, i, i))

Split(str) == SplitFrom(str, 1, "")

Min(a, b) == IF a <= b THEN a ELSE b
Max(a, b) == IF a >= b THEN a ELSE b

\* list[:k], for negative k too
Slice(list, k) ==
    IF k >= 0 THEN SubSeq(list, 1, Min(k, Len(list)))
    ELSE SubSeq(list, 1, Max(Len(list) + k, 0))

Hit(n, score, d) == [table_name |-> n, similarity_score |-> score, description |-> d]

\* list.sort(key = similarity_score, reverse = True): stable, so hits of
\* equal score keep their order
RECURSIVE InsertHit(_, _)
InsertHit(h, sorted) ==
    IF sorted = <<>> THEN <<h>>
    ELSE IF Head(sorted).similarity_score >= h.similarity_score
         THEN <<Head(sorted)>> \o InsertHit(h, Tail(sorted))
         ELSE <<h>> \o sorted

RECURSIVE SortByScore(_)
SortByScore(hits) ==
    IF hits = <<>> THEN <<>>
    ELSE InsertHit(hits[Len(hits)], SortByScore(SubSeq(hits, 1, Len(hits) - 1)))

-----------------------------------------------------------------------------
(* VectorSearch.keyword_search, lines 5-32 *)

\* lines 13-14
NameScore(table_name, query) ==
    IF In(Lower(table_name), Lower(query)) \/ In(Lower(query), Lower(table_name))
    THEN 10 ELSE 0

\* lines 18-21: 3 for every word of the query, repeated words included
RECURSIVE WordScore(_, _)
WordScore(words, desc_lower) ==
    IF words = <<>> THEN 0
    ELSE (IF Len(Head(words)) > 2 /\ In(Head(words), desc_lower) THEN 3 ELSE 0)
         + WordScore(Tail(words), desc_lower)

\* lines 16-21
DescScore(desc, query) == WordScore(Split(Lower(query)), Lower(desc))

\* NameScore and DescScore tabulated once over the strings of the model
NameScores ==
    [n \in UNION { ToSet(NamesOf(s)) : s \in Schemas }, q \in Queries |-> NameScore(n, q)]
DescScores ==
    [d \in UNION { ToSet(DescsOf(s)) : s \in Schemas }, q \in Queries |-> DescScore(d, q)]

\* lines 9-21 for position i (1-based) of table_names
KeywordScore(names, data, i, query) ==
    NameScores[names[i], query]
    + (IF i <= Len(data) THEN DescScores[data[i], query] ELSE 0)

RECURSIVE KeywordHits(_, _, _, _)
KeywordHits(names, data, i, query) ==
    IF i > Len(names) THEN <<>>
    ELSE LET score == KeywordScore(names, data, i, query)
             description == IF i <= Len(data) THEN data[i] ELSE "Table " \o names[i]
         IN (IF score > 0 THEN <<Hit(names[i], score, description)>> ELSE <<>>)
            \o KeywordHits(names, data, i + 1, query)

\* (mutant) line 31 left out: the hits stay in catalog order
KeywordSearchUnsorted(names, data, query, top_k) ==
    Slice(KeywordHits(names, data, 1, query), top_k)

keyword_search(names, data, query, top_k) ==
    Slice(SortByScore(KeywordHits(names, data, 1, query)), top_k)

-----------------------------------------------------------------------------
(* VectorSearch.search, lines 34-58 *)

\* Inner products of the query vector with the vectors of the index, as
\* integers (only their sign and order matter to search).
ScoreValues == {-1, 0, 1, 2}

\* index.search(query_vector, k): k labels by non-increasing score.  FAISS
\* reports the m <= k best vectors under `sc` (which of several vectors of
\* equal score comes first is up to FAISS) and fills the remaining places
\* with the label -1.  A label is kept here as position + 1, so 0 is -1.
Neighbours(ix, sc, k) ==
    { nb \in [1..k -> 0..Ntotal(ix)] :
        /\ \A i, j \in 1..k : i < j =>
              \/ nb[j] = 0
              \/ nb[i] # 0 /\ nb[i] # nb[j] /\ sc[nb[i]] >= sc[nb[j]]
        /\ \A i \in 1..k : \A o \in 1..Ntotal(ix) :
              (nb[i] # 0 /\ \A j \in 1..k : nb[j] # o) => sc[o] <= sc[nb[i]] }

\* scores[0][i]: the score of the vector reported at place i, and the
\* lowest score for the label -1
ScoreAt(nb, sc, i) == IF nb[i] = 0 THEN -1 ELSE sc[nb[i]]

\* (mutant) line 43 without `scores[0][i] > 0`
RECURSIVE CollectHitsAnyScore(_, _, _, _, _)
CollectHitsAnyScore(names, data, nb, sc, i) ==
    IF i > Len(nb) THEN [raised |-> FALSE, results |-> <<>>]
    ELSE LET idx == nb[i] - 1
             rest == CollectHitsAnyScore(names, data, nb, sc, i + 1)
         IN IF idx >= 0 /\ idx < Len(names)
            THEN IF idx >= Len(data)
                 THEN [raised |-> TRUE, results |-> <<>>]
                 ELSE [raised |-> rest.raised,
                       results |-> IF rest.raised THEN <<>>
                                   ELSE <<Hit(names[idx + 1], sc[nb[i]], data[idx + 1])>>
                                        \o rest.results]
            ELSE rest

\* lines 42-49: the loop over the neighbours.  table_data[idx] raises
\* IndexError when table_data is shorter than table_names.
RECURSIVE CollectHits(_, _, _, _, _)
CollectHits(names, data, nb, sc, i) ==
    IF i > Len(nb) THEN [raised |-> FALSE, results |-> <<>>]
    ELSE LET idx == nb[i] - 1
             rest == CollectHits(names, data, nb, sc, i + 1)
         IN IF idx >= 0 /\ idx < Len(names) /\ ScoreAt(nb, sc, i) > 0
            THEN IF idx >= Len(data)
                 THEN [raised |-> TRUE, results |-> <<>>]
                 ELSE [raised |-> rest.raised,
                       results |-> IF rest.raised THEN <<>>
                                   ELSE <<Hit(names[idx + 1], sc[nb[i]], data[idx + 1])>>
                                        \o rest.results]
            ELSE rest

\* What the collaborators do during one call of search: the embedding
\* model raises (line 38), or FAISS raises (line 39), or FAISS reports
\* scores `sc` and picks `nb`.
Collaborators(ix, top_k) ==
    { [encode_raises |-> TRUE, search_raises |-> FALSE, sc |-> <<>>, nb |-> <<>>],
      [encode_raises |-> FALSE, search_raises |-> TRUE, sc |-> <<>>, nb |-> <<>>] }
    \cup
    { [encode_raises |-> FALSE, search_raises |-> FALSE, sc |-> x[1], nb |-> x[2]] :
        x \in UNION { { <<c, n>> : n \in Neighbours(ix, c, Max(Min(top_k, Ntotal(ix)), 0)) } :
                        c \in [1..Ntotal(ix) -> ScoreValues] } }

\* lines 37-51, the body of `try`: raised, or the sorted hits.
\* index.search rejects k <= 0.
VectorPath(names, data, ix, top_k, co) ==
    IF co.encode_raises \/ co.search_raises \/ Min(top_k, Ntotal(ix)) <= 0
    THEN [raised |-> TRUE, results |-> <<>>]
    ELSE LET got == CollectHits(names, data, co.nb, co.sc, 1)
         IN [raised |-> got.raised, results |-> SortByScore(got.results)]

\* (mutant) no try/except around the vector path
SearchUnguarded(names, data, ix, query, top_k, co) ==
    LET fallback == [raised |-> FALSE, path |-> "keyword",
                     hits |-> keyword_search(names, data, query, top_k)]
    IN IF ix # None /\ Ntotal(ix) > 0
       THEN LET vp == VectorPath(names, data, ix, top_k, co)
            IN IF vp.raised THEN [raised |-> TRUE, path |-> "vector", hits |-> <<>>]
               ELSE IF vp.results # <<>>
                    THEN [raised |-> FALSE, path |-> "vector", hits |-> vp.results]
                    ELSE fallback
       ELSE fallback

\* (mutant) the vector results are returned even when there are none
SearchReturnsEmpty(names, data, ix, query, top_k, co) ==
    LET fallback == [raised |-> FALSE, path |-> "keyword",
                     hits |-> keyword_search(names, data, query, top_k)]
    IN IF ix # None /\ Ntotal(ix) > 0
       THEN LET vp == VectorPath(names, data, ix, top_k, co)
            IN IF vp.raised THEN fallback
               ELSE [raised |-> FALSE, path |-> "vector", hits |-> vp.results]
       ELSE fallback

\* the whole of search: what it returns, or that it raised
search(names, data, ix, query, top_k, co) ==
    LET fallback == [raised |-> FALSE, path |-> "keyword",
                     hits |-> keyword_search(names, data, query, top_k)]
    IN IF ix # None /\ Ntotal(ix) > 0
       THEN LET vp == VectorPath(names, data, ix, top_k, co)
            IN IF vp.raised THEN fallback                  \* except Exception: pass
               ELSE IF vp.results # <<>>
                    THEN [raised |-> FALSE, path |-> "vector", hits |-> vp.results]
                    ELSE fallback
       ELSE fallback

-----------------------------------------------------------------------------
(* SQLGenerationService.generate_sql, lines 7-70 *)

\* config.py line 28
MISTRAL_MODELS == {"mistral-large-latest", "mistral-medium", "mistral-small"}

\* Optional[str]: None, or a str
NoneValue == <<>>
Some(str) == <<str>>

\* str.strip(), str.startswith(), str.endswith()
RECURSIVE LStrip(_)
LStrip(str) ==
    IF str # "" /\ IsSpace(SubSeq(str, 1, 1)) THEN LStrip(SubSeq(str, 2, Len(str)))
    ELSE str

RECURSIVE RStrip(_)
RStrip(str) ==
    IF str # "" /\ IsSpace(SubSeq(str, Len(str), Len(str)))
    THEN RStrip(SubSeq(str, 1, Len(str) - 1))
    ELSE str

Strip(str) == RStrip(LStrip(str))
StartsWith(str, prefix) ==
    Len(prefix) <= Len(str) /\ SubSeq(str, 1, Len(prefix)) = prefix
EndsWith(str, suffix) ==
    Len(suffix) <= Len(str) /\ SubSeq(str, Len(str) - Len(suffix) + 1, Len(str)) = suffix

\* The markdown fence of lines 57-61, three backquotes; a TLA+ string cannot
\* hold a backquote, so the apostrophe stands for it in the model's texts.
Fence == "'''"

\* lines 55-63: the text of the first choice without its markdown fence
CleanSql(content) ==
    LET stripped == Strip(content)
        opened == IF StartsWith(stripped, Fence \o "sql")
                  THEN SubSeq(stripped, Len(Fence) + 4, Len(stripped)) ELSE stripped
        closed == IF EndsWith(opened, Fence)
                  THEN SubSeq(opened, 1, Len(opened) - Len(Fence)) ELSE opened
    IN Strip(closed)

\* What the Mistral API does with one request: requests.post or
\* raise_for_status raises HTTPError, the connection fails, the body is not
\* JSON, the JSON lacks a first choice with a text, or it holds `content`.
Contents == {"SELECT * FROM users", "'''sql\nSELECT 1\n'''", " ", ""}
HttpOutcomes ==
    { [kind |-> k, content |-> ""] :
        k \in {"HTTPError", "RequestException", "invalid json", "malformed"} }
    \cup { [kind |-> "ok", content |-> c] : c \in Contents }

\* MISTRAL_API_KEY (config.py line 18): unset or empty, or a key
ApiKeys == {"", "fake_api_key"}

Outcome(sql_query, error, posted) ==
    [raised |-> FALSE, sql_query |-> sql_query, error |-> error, posted |-> posted]

\* (mutant) without the last handler `except Exception` (lines 69-70)
GenerateSqlNoCatchAll(api_key, model, http) ==
    IF api_key = ""
    THEN Outcome(NoneValue,
                 Some("Mistral API key not found. Please check your .env file."), FALSE)
    ELSE IF model \notin MISTRAL_MODELS
    THEN Outcome(NoneValue, Some("Invalid model. Choose from: mistral-large-latest, mistral-medium, mistral-small"), FALSE)
    ELSE CASE http.kind = "HTTPError" ->
                  Outcome(NoneValue, Some("Mistral API error: HTTPError"), TRUE)
           [] http.kind = "RequestException" ->
                  Outcome(NoneValue, Some("Connection error: RequestException"), TRUE)
           [] http.kind = "invalid json" ->
                  Outcome(NoneValue, Some("Error: Received invalid JSON from Mistral API."), TRUE)
           [] http.kind = "malformed" ->
                  [raised |-> TRUE, sql_query |-> NoneValue, error |-> NoneValue,
                   posted |-> TRUE]
           [] http.kind = "ok" ->
                  Outcome(Some(CleanSql(http.content)), NoneValue, TRUE)

\* The pair generate_sql returns, whether it raised instead, and whether
\* requests.post was called.
generate_sql(api_key, model, http) ==
    IF api_key = ""                                                   \* lines 8-9
    THEN Outcome(NoneValue,
                 Some("Mistral API key not found. Please check your .env file."), FALSE)
    ELSE IF model \notin MISTRAL_MODELS                               \* lines 11-12
    THEN Outcome(NoneValue, Some("Invalid model. Choose from: mistral-large-latest, mistral-medium, mistral-small"), FALSE)
    ELSE CASE http.kind = "HTTPError" ->                              \* lines 65-66
                  Outcome(NoneValue, Some("Mistral API error: HTTPError"), TRUE)
           [] http.kind = "RequestException" ->                       \* lines 67-68
                  Outcome(NoneValue, Some("Connection error: RequestException"), TRUE)
           [] http.kind = "invalid json" ->                           \* lines 50-53
                  Outcome(NoneValue, Some("Error: Received invalid JSON from Mistral API."), TRUE)
           [] http.kind = "malformed" ->                              \* lines 55, 69-70
                  Outcome(NoneValue, Some("Unexpected error: malformed"), TRUE)
           [] http.kind = "ok" ->                                     \* lines 55-63
                  Outcome(Some(CleanSql(http.content)), NoneValue, TRUE)

-----------------------------------------------------------------------------
(* Initial state: SchemaService.__init__ (lines 18-22) in every process,   *)
(* and a working directory without index files.                            *)

NoResult ==
    [called |-> FALSE, by |-> 0, query |-> "", top_k |-> 0, vector |-> "none",
     raised |-> FALSE, path |-> "none", hits |-> <<>>]

NoSearch ==
    [pc |-> "idle", by |-> 0, query |-> "", top_k |-> 0, sc |-> <<>>, nb |-> <<>>,
     vector |-> "none"]

\* no request is being handled
NoHandler ==
    [name |-> "none", pc |-> "done", query |-> "", model |-> "", schema_json |-> <<>>,
     loads |-> 0, before |-> <<>>, relevant_tables |-> <<>>, searched |-> FALSE,
     found |-> 0,
     generated |-> FALSE, status |-> 0, failed |-> "none",
     api_key |-> "", http |-> "none", returned |-> Outcome(NoneValue, NoneValue, FALSE)]

NoLocals == [i |-> 0, existing_names |-> <<>>, branch |-> "none", again |-> FALSE]

\* every process has constructed its engine; no request was handled yet
Started ==
    /\ table_names = [p \in Procs |-> <<>>]
    /\ table_data = [p \in Procs |-> <<>>]
    /\ index = [p \in Procs |-> None]
    /\ idxFile = Absent
    /\ namesFile = Absent
    /\ descFile = Absent
    /\ pc = [p \in Procs |-> "idle"]
    /\ schema_json = [p \in Procs |-> <<>>]
    /\ local = [p \in Procs |-> NoLocals]
    /\ outcome = [p \in Procs |-> "none"]
    /\ calls = 0
    /\ faults = 0
    /\ result = NoResult
    /\ sthread = NoSearch
    /\ schema_loaded = FALSE
    /\ handler = NoHandler

Init == Started /\ schemaFile = Absent

-----------------------------------------------------------------------------
(* SchemaService.load_schema_data, one action per statement that reads or  *)
(* writes state another thread or process can see.                         *)

Goto(p, l) == pc' = [pc EXCEPT ![p] = l]
SetLocal(p, l) == local' = [local EXCEPT ![p] = l]
Files == <<idxFile, namesFile, descFile>>
Memory == <<table_names, table_data, index>>
Request == <<schema_loaded, schemaFile, handler>>

\* the call ends by raising to its caller
Raise(p) ==
    /\ Goto(p, "idle")
    /\ outcome' = [outcome EXCEPT ![p] = "raised"]
    /\ SetLocal(p, NoLocals)

\* line 25.  `again` remembers that the previous call of this process
\* returned normally and had the same argument.
LoadBegin(p, s) ==
    /\ pc[p] = "idle"
    /\ calls < MaxLoads
    /\ calls' = calls + 1
    /\ table_data' = [table_data EXCEPT ![p] = <<>>]
    /\ schema_json' = [schema_json EXCEPT ![p] = s]
    /\ SetLocal(p, [NoLocals EXCEPT
           !.again = (outcome[p] \in {"reloaded", "rebuilt"} /\ schema_json[p] = s)])
    /\ Goto(p, "clear_names")
    /\ UNCHANGED <<table_names, index, Files, outcome, faults, result, sthread, Request>>

\* line 26
ClearNames(p) ==
    /\ pc[p] = "clear_names"
    /\ table_names' = [table_names EXCEPT ![p] = <<>>]
    /\ Goto(p, IF schema_json[p] = <<>> THEN "check_exists" ELSE "loop")
    /\ UNCHANGED <<table_data, index, Files, schema_json, local, outcome, calls, faults, result, sthread, Request>>

\* lines 28-29
LoopName(p) ==
    /\ pc[p] = "loop"
    /\ table_names' = [table_names EXCEPT
           ![p] = Append(@, schema_json[p][local[p].i + 1].table_name)]
    /\ Goto(p, "loop_desc")
    /\ UNCHANGED <<table_data, index, Files, schema_json, local, outcome, calls, faults, result, sthread, Request>>

\* lines 31-37
LoopDesc(p) ==
    /\ pc[p] = "loop_desc"
    /\ LET e == schema_json[p][local[p].i + 1]
       IN table_data' = [table_data EXCEPT
              ![p] = Append(@, TableDesc(e.table_name, e.columns))]
    /\ SetLocal(p, [local[p] EXCEPT !.i = IF @ + 1 = Len(schema_json[p]) THEN 0 ELSE @ + 1])
    /\ Goto(p, IF local[p].i + 1 = Len(schema_json[p]) THEN "check_exists" ELSE "loop")
    /\ UNCHANGED <<table_names, index, Files, schema_json, outcome, calls, faults, result, sthread, Request>>

\* (mutant) lines 25-26 left out: the lists of the previous load are kept
LoadCatalogAppends(p, s) ==
    /\ pc[p] = "idle"
    /\ ~result.called
    /\ calls < MaxLoads
    /\ calls' = calls + 1
    /\ table_names' = [table_names EXCEPT ![p] = @ \o NamesOf(s)]
    /\ table_data' = [table_data EXCEPT ![p] = @ \o DescsOf(s)]
    /\ schema_json' = [schema_json EXCEPT ![p] = s]
    /\ SetLocal(p, [NoLocals EXCEPT
           !.again = (outcome[p] \in {"reloaded", "rebuilt"} /\ schema_json[p] = s)])
    /\ Goto(p, "check_exists")
    /\ UNCHANGED <<index, Files, outcome, faults, result, sthread, Request>>

\* lines 25-37 as seen from another process: the engine's memory is private
\* to its process, so the loop is one step there
LoadCatalog(p, s) ==
    /\ pc[p] = "idle"
    /\ ~result.called
    /\ calls < MaxLoads
    /\ calls' = calls + 1
    /\ table_names' = [table_names EXCEPT ![p] = NamesOf(s)]
    /\ table_data' = [table_data EXCEPT ![p] = DescsOf(s)]
    /\ schema_json' = [schema_json EXCEPT ![p] = s]
    /\ SetLocal(p, [NoLocals EXCEPT
           !.again = (outcome[p] \in {"reloaded", "rebuilt"} /\ schema_json[p] = s)])
    /\ Goto(p, "check_exists")
    /\ UNCHANGED <<index, Files, outcome, faults, result, sthread, Request>>

\* line 39 calling line 52
CheckExists(p) ==
    /\ pc[p] = "check_exists"
    /\ Goto(p, IF AllExist(idxFile, namesFile, descFile) THEN "check_names" ELSE "build")
    /\ UNCHANGED <<Memory, Files, schema_json, local, outcome, calls, faults, result, sthread, Request>>

\* (mutant) open and json.load outside `try`: an unreadable file raises
CheckNamesUnguarded(p) ==
    /\ pc[p] = "check_names"
    /\ IF Readable(namesFile)
       THEN /\ SetLocal(p, [local[p] EXCEPT !.existing_names = namesFile.data])
            /\ Goto(p, "check_desc")
            /\ UNCHANGED outcome
       ELSE Raise(p)
    /\ UNCHANGED <<Memory, Files, schema_json, calls, faults, result, sthread, Request>>

\* lines 56-57
CheckNames(p) ==
    /\ pc[p] = "check_names"
    /\ IF Readable(namesFile)
       THEN /\ SetLocal(p, [local[p] EXCEPT !.existing_names = namesFile.data])
            /\ Goto(p, "check_desc")
       ELSE /\ Goto(p, "build")
            /\ UNCHANGED local
    /\ UNCHANGED <<Memory, Files, schema_json, outcome, calls, faults, result, sthread, Request>>

\* lines 59-65
CheckDesc(p) ==
    /\ pc[p] = "check_desc"
    /\ Goto(p, IF /\ Readable(descFile)
                  /\ ~SidecarMismatch(local[p].existing_names, descFile.data,
                                      table_names[p], table_data[p])
               THEN "check_index" ELSE "build")
    /\ SetLocal(p, [local[p] EXCEPT !.existing_names = <<>>])
    /\ UNCHANGED <<Memory, Files, schema_json, outcome, calls, faults, result, sthread, Request>>

\* (mutant) the index file only has to be readable
CheckIndexNoCount(p) ==
    /\ pc[p] = "check_index"
    /\ Goto(p, IF Readable(idxFile) THEN "read_index" ELSE "build")
    /\ UNCHANGED <<Memory, Files, schema_json, local, outcome, calls, faults, result, sthread, Request>>

\* lines 67-68, and the branch of line 39
CheckIndex(p) ==
    /\ pc[p] = "check_index"
    /\ Goto(p, IF Readable(idxFile) /\ Len(idxFile.data) = Len(table_names[p])
               THEN "read_index" ELSE "build")
    /\ UNCHANGED <<Memory, Files, schema_json, local, outcome, calls, faults, result, sthread, Request>>

\* line 40: faiss.read_index raises when the file is gone or unreadable
ReadIndex(p) ==
    /\ pc[p] = "read_index"
    /\ IF Readable(idxFile)
       THEN /\ index' = [index EXCEPT ![p] = IndexFlatIP(idxFile.data)]
            /\ SetLocal(p, [local[p] EXCEPT !.branch = "reloaded"])
            /\ Goto(p, "write_names")
            /\ UNCHANGED outcome
       ELSE /\ Raise(p)
            /\ UNCHANGED index
    /\ UNCHANGED <<table_names, table_data, Files, schema_json, calls, faults, result, sthread, Request>>

\* line 42 calling lines 74-79
BuildIndex(p) ==
    /\ pc[p] = "build"
    /\ IF table_data[p] = <<>>
       THEN /\ index' = [index EXCEPT ![p] = None]
            /\ Goto(p, "write_names")
       ELSE /\ UNCHANGED index
            /\ Goto(p, "new_index")
    /\ SetLocal(p, [local[p] EXCEPT !.branch = "rebuilt"])
    /\ UNCHANGED <<table_names, table_data, Files, schema_json, outcome, calls, faults, result, sthread, Request>>

\* line 80
NewIndex(p) ==
    /\ pc[p] = "new_index"
    /\ index' = [index EXCEPT ![p] = IndexFlatIP(<<>>)]
    /\ Goto(p, "add")
    /\ UNCHANGED <<table_names, table_data, Files, schema_json, local, outcome, calls, faults, result, sthread, Request>>

\* line 81 (table_vectors of line 78: nothing else writes table_data)
AddVectors(p) ==
    /\ pc[p] = "add"
    /\ index' = [index EXCEPT ![p] = IndexFlatIP(index[p].vecs \o Encode(table_data[p]))]
    /\ Goto(p, "write_index")
    /\ UNCHANGED <<table_names, table_data, Files, schema_json, local, outcome, calls, faults, result, sthread, Request>>

\* lines 74-81 as seen from another process
BuildInMemory(p) ==
    /\ pc[p] = "build"
    /\ IF table_data[p] = <<>>
       THEN /\ index' = [index EXCEPT ![p] = None]
            /\ Goto(p, "write_names")
       ELSE /\ index' = [index EXCEPT ![p] = IndexFlatIP(Encode(table_data[p]))]
            /\ Goto(p, "write_index")
    /\ SetLocal(p, [local[p] EXCEPT !.branch = "rebuilt"])
    /\ UNCHANGED <<table_names, table_data, Files, schema_json, outcome, calls, faults, result, sthread, Request>>

\* line 82
WriteIndex(p) ==
    /\ pc[p] = "write_index"
    /\ idxFile' = File(index[p].vecs)
    /\ Goto(p, "write_names")
    /\ UNCHANGED <<Memory, namesFile, descFile, schema_json, local, outcome, calls, faults, result, sthread, Request>>

\* lines 44-45
WriteNames(p) ==
    /\ pc[p] = "write_names"
    /\ namesFile' = File(table_names[p])
    /\ Goto(p, "write_desc")
    /\ UNCHANGED <<Memory, idxFile, descFile, schema_json, local, outcome, calls, faults, result, sthread, Request>>

\* lines 47-48, and the return
WriteDesc(p) ==
    /\ pc[p] = "write_desc"
    /\ descFile' = File(table_data[p])
    /\ Goto(p, "idle")
    /\ outcome' = [outcome EXCEPT ![p] = local[p].branch]
    /\ SetLocal(p, NoLocals)
    /\ UNCHANGED <<Memory, idxFile, namesFile, schema_json, calls, faults, result, sthread, Request>>

-----------------------------------------------------------------------------
(* Failures of the collaborators: the embedding model and the file system *)

\* line 78 raises (model error, out of memory)
EncodeFails(p) ==
    /\ pc[p] = "build"
    /\ table_data[p] # <<>>
    /\ Raise(p)
    /\ faults < MaxFaults
    /\ faults' = faults + 1
    /\ UNCHANGED <<Memory, Files, schema_json, calls, result, sthread, Request>>

\* a write (line 82, 44-45 or 47-48) raises: open() failed and the file is
\* as before, or it was truncated by open(..., 'w') and is left unreadable
WriteFails(p) ==
    /\ pc[p] \in {"write_index", "write_names", "write_desc"}
    /\ \E left \in {"as before", "truncated"} :
          /\ idxFile' = IF pc[p] = "write_index" /\ left = "truncated"
                         THEN Corrupt ELSE idxFile
          /\ namesFile' = IF pc[p] = "write_names" /\ left = "truncated"
                           THEN Corrupt ELSE namesFile
          /\ descFile' = IF pc[p] = "write_desc" /\ left = "truncated"
                          THEN Corrupt ELSE descFile
    /\ Raise(p)
    /\ faults < MaxFaults
    /\ faults' = faults + 1
    /\ UNCHANGED <<Memory, schema_json, calls, result, sthread, Request>>

\* somebody removes one of the three files
DeleteFile(f) ==
    /\ idxFile' = IF f = "index" THEN Absent ELSE idxFile
    /\ namesFile' = IF f = "names" THEN Absent ELSE namesFile
    /\ descFile' = IF f = "desc" THEN Absent ELSE descFile
    /\ Files' # Files
    /\ faults < MaxFaults
    /\ faults' = faults + 1
    /\ UNCHANGED <<Memory, pc, schema_json, local, outcome, calls, result, sthread, Request>>

FileNames == {"index", "names", "desc"}

-----------------------------------------------------------------------------
(* A request calling search (main.py line 169).  The handlers of main.py   *)
(* are coroutines that never await, so within one process a search runs    *)
(* between two calls of load_schema_data, never during one.                *)

\* top_k: int = 5
DefaultTopK == 5

\* negative, zero, fewer than, as many as and more than the tables of a catalog
TopKs == {-1, 0, 1, 2, DefaultTopK}

\* what lines 36-53 came to, whatever search then returned
VectorOutcome(names, data, ix, top_k, co) ==
    IF ix = None \/ Ntotal(ix) = 0 THEN "skipped"
    ELSE LET vp == VectorPath(names, data, ix, top_k, co)
         IN IF vp.raised THEN "raised"
            ELSE IF vp.results = <<>> THEN "no hits" ELSE "hits"

Search(p, query, top_k) ==
    /\ pc[p] = "idle"
    /\ ~result.called
    /\ \E co \in Collaborators(index[p], top_k) :
          LET ret == search(table_names[p], table_data[p], index[p], query, top_k, co)
          IN result' = [called |-> TRUE, by |-> p, query |-> query, top_k |-> top_k,
                        vector |-> VectorOutcome(table_names[p], table_data[p],
                                                 index[p], top_k, co),
                        raised |-> ret.raised, path |-> ret.path, hits |-> ret.hits]
    /\ UNCHANGED <<Memory, Files, pc, schema_json, local, outcome, calls, faults, sthread, Request>>

\* the request is answered; the next handler may run
Respond ==
    /\ result.called
    /\ result' = NoResult
    /\ UNCHANGED <<Memory, Files, pc, schema_json, local, outcome, calls, faults, sthread, Request>>

-----------------------------------------------------------------------------
(* search called on a thread of its own (VectorSearch takes no lock): one  *)
(* action per statement of lines 34-58 that reads the engine.              *)

Step(l) == sthread' = [sthread EXCEPT !.pc = l]
Fallback(vector) ==
    sthread' = [sthread EXCEPT !.pc = "keyword", !.sc = <<>>, !.nb = <<>>,
                               !.vector = vector]
Return(ret, vector) ==
    /\ result' = [called |-> TRUE, by |-> sthread.by, query |-> sthread.query,
                  top_k |-> sthread.top_k, vector |-> vector,
                  raised |-> ret.raised, path |-> ret.path, hits |-> ret.hits]
    /\ sthread' = NoSearch
Engine == <<Memory, Files, pc, schema_json, local, outcome, calls, faults, Request>>

\* line 34
SearchCall(p, query, top_k) ==
    /\ sthread.pc = "idle"
    /\ ~result.called
    /\ sthread' = [NoSearch EXCEPT !.pc = "test_none", !.by = p,
                                   !.query = query, !.top_k = top_k]
    /\ UNCHANGED <<Engine, result>>

\* line 36, `self.index is not None`
TestNone ==
    /\ sthread.pc = "test_none"
    /\ IF index[sthread.by] # None THEN Step("test_ntotal") ELSE Fallback("skipped")
    /\ UNCHANGED <<Engine, result>>

\* line 36, `self.index.ntotal > 0`, outside `try`: AttributeError when the
\* index has become None since the first test
TestNtotal ==
    /\ sthread.pc = "test_ntotal"
    /\ IF index[sthread.by] = None
       THEN Return([raised |-> TRUE, path |-> "none", hits |-> <<>>], "none")
       ELSE /\ IF Ntotal(index[sthread.by]) > 0
               THEN Step("query_index") ELSE Fallback("skipped")
            /\ UNCHANGED result
    /\ UNCHANGED Engine

\* lines 38-39, inside `try`
QueryIndex ==
    /\ sthread.pc = "query_index"
    /\ \E co \in Collaborators(index[sthread.by], sthread.top_k) :
          IF \/ index[sthread.by] = None
             \/ co.encode_raises \/ co.search_raises
             \/ Min(sthread.top_k, Ntotal(index[sthread.by])) <= 0
          THEN Fallback("raised")
          ELSE sthread' = [sthread EXCEPT !.pc = "collect", !.sc = co.sc, !.nb = co.nb]
    /\ UNCHANGED <<Engine, result>>

\* lines 41-56
Collect ==
    /\ sthread.pc = "collect"
    /\ LET p == sthread.by
           got == CollectHits(table_names[p], table_data[p], sthread.nb, sthread.sc, 1)
       IN IF ~got.raised /\ got.results # <<>>
          THEN Return([raised |-> FALSE, path |-> "vector",
                       hits |-> SortByScore(got.results)], "hits")
          ELSE /\ Fallback(IF got.raised THEN "raised" ELSE "no hits")
               /\ UNCHANGED result
    /\ UNCHANGED Engine

\* line 58
Keyword ==
    /\ sthread.pc = "keyword"
    /\ LET p == sthread.by
       IN Return([raised |-> FALSE, path |-> "keyword",
                  hits |-> keyword_search(table_names[p], table_data[p],
                                          sthread.query, sthread.top_k)], sthread.vector)
    /\ UNCHANGED Engine

SearchStep == TestNone \/ TestNtotal \/ QueryIndex \/ Collect \/ Keyword

-----------------------------------------------------------------------------
(* The request layer of main.py in the process serving requests.  The      *)
(* handlers are coroutines without await: one request is handled at a time.*)

Server == 1
Handling(n, l) == handler.name = n /\ handler.pc = l
\* The request is answered: the locals of the handler are gone; what stays
\* is its status code, what made it fail, whether it had called search and
\* generate_sql and, for C14, the engine it had found if fetch_schema failed.
Done(status, failed) ==
    [NoHandler EXCEPT !.name = handler.name, !.status = status, !.failed = failed,
                      !.searched = handler.searched, !.found = handler.found,
                      !.generated = handler.generated,
                      !.before = IF failed = "fetch_schema" THEN handler.before ELSE <<>>]
NoRequest ==
    /\ handler.pc = "done" /\ pc[Server] = "idle"
    /\ ~result.called /\ sthread.pc = "idle"
\* the engine and the flag as a request finds them
EngineNow == <<table_names[Server], table_data[Server], index[Server], schema_loaded>>
Untouched == <<Memory, Files, pc, schema_json, local, outcome, calls, faults, result, sthread>>

\* DatabaseService.fetch_schema: an error that leaves SCHEMA_FILE as it was
\* (lines 12-13, 65-66, 76-77), an error while writing it (lines 68-69,
\* 78-79) or after writing it (lines 71-72, 78-79), or the tables, written
\* to SCHEMA_FILE.  It never returns an empty dict (lines 65-66).
FetchOutcomes ==
    { [error |-> TRUE, tables |-> <<>>, file |-> f] : f \in {"as before", "truncated"} }
    \cup { [error |-> e, tables |-> s, file |-> "written"] :
             e \in BOOLEAN, s \in Schemas \ {<<>>} }

FileAfter(how, tables) ==
    CASE how = "as before" -> schemaFile
      [] how = "truncated" -> Corrupt
      [] how = "written" -> File(tables)

\* update_schema, lines 127-132
UpdateSchema ==
    /\ NoRequest
    /\ \E o \in FetchOutcomes :
          /\ schemaFile' = FileAfter(o.file, o.tables)
          /\ handler' =
                IF o.error
                THEN [NoHandler EXCEPT !.name = "update_schema", !.before = EngineNow,
                                       !.status = 500, !.failed = "fetch_schema"]
                ELSE [NoHandler EXCEPT !.name = "update_schema",
                                       !.pc = "save", !.schema_json = o.tables]
    /\ UNCHANGED <<Untouched, schema_loaded>>

\* lines 134-137: a write that raises ends the request at lines 146-149
UpdateSchemaSave ==
    /\ Handling("update_schema", "save")
    /\ \E how \in {"written", "as before", "truncated"}, last_fetch_written \in BOOLEAN :
          /\ schemaFile' = FileAfter(how, handler.schema_json)
          /\ handler' =
                IF how = "written" /\ last_fetch_written
                THEN [handler EXCEPT !.pc = "load", !.loads = calls]
                ELSE Done(500, "save")
    /\ UNCHANGED <<Untouched, schema_loaded>>

\* line 138, the call
UpdateSchemaLoad ==
    /\ Handling("update_schema", "load")
    /\ calls = handler.loads
    /\ LoadCatalog(Server, handler.schema_json)

\* lines 139-145
UpdateSchemaLoaded ==
    /\ Handling("update_schema", "load")
    /\ calls > handler.loads /\ pc[Server] = "idle"
    /\ outcome[Server] \in {"reloaded", "rebuilt"}
    /\ schema_loaded' = TRUE
    /\ handler' = Done(200, "none")
    /\ UNCHANGED <<Untouched, schemaFile>>

\* lines 146-149: load_schema_data raised
UpdateSchemaFailed ==
    /\ Handling("update_schema", "load")
    /\ calls > handler.loads /\ pc[Server] = "idle"
    /\ outcome[Server] = "raised"
    /\ handler' = Done(500, "load_schema_data")
    /\ UNCHANGED <<Untouched, schema_loaded, schemaFile>>

\* POST /generate-sql: FastAPI resolves Depends(get_schema_search) before
\* the body of generate_sql_endpoint runs.  get_schema_search, lines 82-86.
RequestModels == {"mistral-large-latest", "gpt-4"}

GenerateSqlRequest(query, model) ==
    /\ NoRequest
    /\ handler' = [NoHandler EXCEPT
          !.name = "generate_sql_endpoint", !.query = query, !.model = model,
          !.before = IF schema_loaded THEN <<>> ELSE EngineNow,
          !.pc = IF schema_loaded THEN "validate"
                 ELSE IF Exists(schemaFile) THEN "local" ELSE "oracle"]
    /\ UNCHANGED <<Untouched, schema_loaded, schemaFile>>

\* get_schema_search, lines 87-90 and 94-95
ReadLocal ==
    /\ Handling("generate_sql_endpoint", "local")
    /\ handler' =
          IF Readable(schemaFile)
          THEN [handler EXCEPT !.pc = "local_load", !.schema_json = schemaFile.data,
                               !.loads = calls]
          ELSE [handler EXCEPT !.pc = "oracle"]
    /\ UNCHANGED <<Untouched, schema_loaded, schemaFile>>

\* line 91, the call
LocalLoad ==
    /\ Handling("generate_sql_endpoint", "local_load")
    /\ calls = handler.loads
    /\ LoadCatalog(Server, handler.schema_json)

\* lines 92-93
LocalLoaded ==
    /\ Handling("generate_sql_endpoint", "local_load")
    /\ calls > handler.loads /\ pc[Server] = "idle"
    /\ outcome[Server] \in {"reloaded", "rebuilt"}
    /\ schema_loaded' = TRUE
    /\ handler' = [handler EXCEPT !.pc = "validate", !.before = <<>>]
    /\ UNCHANGED <<Untouched, schemaFile>>

\* (mutant) the engine is returned although the local load raised
LocalFailedServes ==
    /\ Handling("generate_sql_endpoint", "local_load")
    /\ calls > handler.loads /\ pc[Server] = "idle"
    /\ outcome[Server] = "raised"
    /\ handler' = [handler EXCEPT !.pc = "validate"]
    /\ UNCHANGED <<Untouched, schema_loaded, schemaFile>>

\* lines 94-95: load_schema_data raised; Oracle is tried next
LocalFailed ==
    /\ Handling("generate_sql_endpoint", "local_load")
    /\ calls > handler.loads /\ pc[Server] = "idle"
    /\ outcome[Server] = "raised"
    /\ handler' = [handler EXCEPT !.pc = "oracle"]
    /\ UNCHANGED <<Untouched, schema_loaded, schemaFile>>

\* lines 98-111 and, when fetch_schema returned an error, 115-123.  A
\* failure of the second write of SCHEMA_FILE is only logged (110-111).
FetchOracle ==
    /\ Handling("generate_sql_endpoint", "oracle")
    /\ \E o \in FetchOutcomes, saved \in {"written", "truncated"} :
          IF o.error
          THEN /\ schemaFile' = FileAfter(o.file, o.tables)
               /\ handler' = Done(IF Exists(FileAfter(o.file, o.tables)) THEN 500 ELSE 503,
                                  "fetch_schema")
          ELSE /\ schemaFile' = FileAfter(saved, o.tables)
               /\ handler' = [handler EXCEPT !.pc = "oracle_load",
                                             !.schema_json = o.tables, !.loads = calls]
    /\ UNCHANGED <<Untouched, schema_loaded>>

\* line 112, the call
OracleLoad ==
    /\ Handling("generate_sql_endpoint", "oracle_load")
    /\ calls = handler.loads
    /\ LoadCatalog(Server, handler.schema_json)

\* lines 113-114
OracleLoaded ==
    /\ Handling("generate_sql_endpoint", "oracle_load")
    /\ calls > handler.loads /\ pc[Server] = "idle"
    /\ outcome[Server] \in {"reloaded", "rebuilt"}
    /\ schema_loaded' = TRUE
    /\ handler' = [handler EXCEPT !.pc = "validate", !.before = <<>>]
    /\ UNCHANGED <<Untouched, schemaFile>>

\* lines 115-123: load_schema_data raised
OracleFailed ==
    /\ Handling("generate_sql_endpoint", "oracle_load")
    /\ calls > handler.loads /\ pc[Server] = "idle"
    /\ outcome[Server] = "raised"
    /\ handler' = Done(IF Exists(schemaFile) THEN 500 ELSE 503, "load_schema_data")
    /\ UNCHANGED <<Untouched, schema_loaded, schemaFile>>

\* generate_sql_endpoint, lines 162-163
Validate ==
    /\ Handling("generate_sql_endpoint", "validate")
    /\ handler' = IF handler.model \notin MISTRAL_MODELS
                  THEN Done(400, "model")
                  ELSE [handler EXCEPT !.pc = "search"]
    /\ UNCHANGED <<Untouched, schema_loaded, schemaFile>>

\* (mutant) lines 174-175 left out
EndpointSearchNo404 ==
    /\ Handling("generate_sql_endpoint", "search")
    /\ \E co \in Collaborators(index[Server], DefaultTopK) :
          LET ret == search(table_names[Server], table_data[Server], index[Server],
                            handler.query, DefaultTopK, co)
              searched == [handler EXCEPT !.searched = TRUE, !.found = Len(ret.hits)]
          IN handler' =
                IF ret.raised
                THEN [Done(500, "search") EXCEPT !.searched = TRUE]
                ELSE [searched EXCEPT !.pc = "read_schema",
                                      !.relevant_tables = ret.hits]
    /\ UNCHANGED <<Untouched, schema_loaded, schemaFile>>

\* lines 168-175: search with the default top_k, 500 when it raises, 404
\* when it returns no table
EndpointSearch ==
    /\ Handling("generate_sql_endpoint", "search")
    /\ \E co \in Collaborators(index[Server], DefaultTopK) :
          LET ret == search(table_names[Server], table_data[Server], index[Server],
                            handler.query, DefaultTopK, co)
              searched == [handler EXCEPT !.searched = TRUE, !.found = Len(ret.hits)]
          IN handler' =
                IF ret.raised
                THEN [Done(500, "search") EXCEPT !.searched = TRUE]
                ELSE IF ret.hits = <<>>
                THEN [Done(404, "no tables") EXCEPT !.searched = TRUE]
                ELSE [searched EXCEPT !.pc = "read_schema",
                                      !.relevant_tables = ret.hits]
    /\ UNCHANGED <<Untouched, schema_loaded, schemaFile>>

\* lines 178-197: SCHEMA_FILE is read again for the prompt
ReadSchemaFile ==
    /\ Handling("generate_sql_endpoint", "read_schema")
    /\ handler' = IF Readable(schemaFile)
                  THEN [handler EXCEPT !.pc = "generate"]
                  ELSE Done(500, "read_schema")
    /\ UNCHANGED <<Untouched, schema_loaded, schemaFile>>

\* lines 200-211
Generate ==
    /\ Handling("generate_sql_endpoint", "generate")
    /\ \E key \in ApiKeys, http \in HttpOutcomes :
          LET ret == generate_sql(key, handler.model, http)
              failed == ret.raised \/ (ret.error # NoneValue /\ ret.error # Some(""))
          IN handler' =
                [Done(IF failed THEN 500 ELSE 200,
                      IF failed THEN "generate_sql" ELSE "none")
                   EXCEPT !.generated = TRUE]
    /\ UNCHANGED <<Untouched, schema_loaded, schemaFile>>

\* generate_sql called by itself, as test_main.py does (lines 23-70)
CallGenerateSql(key, nl_query, model, http) ==
    /\ NoRequest
    /\ handler' = [NoHandler EXCEPT
          !.name = "generate_sql", !.query = nl_query, !.model = model,
          !.generated = TRUE,
          !.api_key = key, !.http = http.kind,
          !.returned = generate_sql(key, model, http)]
    /\ UNCHANGED <<Untouched, schema_loaded, schemaFile>>

-----------------------------------------------------------------------------
(* Specifications *)

\* load_schema_data, statement by statement
LoadStep(p) ==
    \/ \E s \in Schemas : LoadBegin(p, s)
    \/ ClearNames(p)
    \/ LoopName(p)
    \/ LoopDesc(p)
    \/ BuildIndex(p)
    \/ NewIndex(p)
    \/ AddVectors(p)

\* load_schema_data as another process sees it
LoadMemory(p) ==
    \/ \E s \in Schemas : LoadCatalog(p, s)
    \/ BuildInMemory(p)

\* the file accesses of load_schema_data
LoadFiles(p) ==
    \/ CheckExists(p)
    \/ CheckNames(p)
    \/ CheckDesc(p)
    \/ CheckIndex(p)
    \/ ReadIndex(p)
    \/ WriteIndex(p)
    \/ WriteNames(p)
    \/ WriteDesc(p)

Fault(p) == EncodeFails(p) \/ WriteFails(p)

\* one process serving requests, failing collaborators, files removed
NextApp ==
    \/ LoadMemory(1) \/ LoadFiles(1)
    \/ Fault(1)
    \/ \E f \in FileNames : DeleteFile(f)
    \/ \E q \in Queries, k \in TopKs : Search(1, q, k)
    \/ Respond
SpecApp == Init /\ [][NextApp]_vars

\* one process in which a request thread searches (with the top_k of
\* main.py line 169) while another thread reloads the schema
NextConc ==
    \/ LoadStep(1) \/ LoadFiles(1)
    \/ \E q \in Queries : SearchCall(1, q, DefaultTopK)
    \/ SearchStep
    \/ Respond
SpecConc == Init /\ [][NextConc]_vars

\* the request layer: one process handling /update-schema and /generate-sql
\* requests one after the other, with failing collaborators; SCHEMA_FILE may
\* have been put into the working directory beforehand
LocalFiles == {Absent, Corrupt} \cup { File(s) : s \in Schemas }
InitReq == Started /\ schemaFile \in LocalFiles

UpdateSchemaStep ==
    \/ UpdateSchema \/ UpdateSchemaSave
    \/ UpdateSchemaLoad \/ UpdateSchemaLoaded \/ UpdateSchemaFailed

GetSchemaSearchStep ==
    \/ ReadLocal \/ LocalLoad \/ LocalLoaded \/ LocalFailed
    \/ FetchOracle \/ OracleLoad \/ OracleLoaded \/ OracleFailed

EndpointStep == Validate \/ EndpointSearch \/ ReadSchemaFile \/ Generate

NextReq ==
    \/ UpdateSchemaStep
    \/ \E q \in Queries, m \in RequestModels : GenerateSqlRequest(q, m)
    \/ GetSchemaSearchStep
    \/ EndpointStep
    \/ BuildInMemory(Server) \/ LoadFiles(Server)
    \/ Fault(Server)
SpecReq == InitReq /\ [][NextReq]_vars

\* generate_sql by itself, for every key, query, model and answer of the API
NextSql ==
    \E key \in ApiKeys, q \in Queries, m \in MISTRAL_MODELS \cup RequestModels,
       http \in HttpOutcomes :
        CallGenerateSql(key, q, m, http)
SpecSql == Init /\ [][NextSql]_vars

\* several processes, failing collaborators, files removed under the program
Next ==
    \/ \E p \in Procs : LoadMemory(p) \/ LoadFiles(p)
    \/ \E p \in Procs : Fault(p)
    \/ \E f \in FileNames : DeleteFile(f)
Spec == Init /\ [][Next]_vars

-----------------------------------------------------------------------------
(* Properties *)

Returned(p) == pc[p] = "idle" /\ outcome[p] \in {"reloaded", "rebuilt"}
CheckPcs == {"check_exists", "check_names", "check_desc", "check_index"}
RebuildPcs == {"build", "new_index", "add", "write_index"}
Valid(s) == IsIndexValid(idxFile, namesFile, descFile, NamesOf(s), DescsOf(s))

\* the three files are as one complete load for one catalog leaves them
FilesOf(s) ==
    /\ idxFile = File(Encode(DescsOf(s)))
    /\ namesFile = File(NamesOf(s))
    /\ descFile = File(DescsOf(s))

\* the engine holds one complete snapshot and the index built for it
EngineOf(p, s) ==
    /\ table_names[p] = NamesOf(s)
    /\ table_data[p] = DescsOf(s)
    /\ index[p] = IF s = <<>> THEN None ELSE IndexFlatIP(Encode(DescsOf(s)))

\* C1: whenever a search running next to a reload is about to read the
\* engine, the engine holds the names, the descriptions and the index of
\* one snapshot (the one before the reload or the one after it).
C1_SearchSeesOneSnapshot ==
    sthread.pc # "idle" => \E s \in Schemas : EngineOf(sthread.by, s)

\* C2: whenever a load looks at the files (no failure and no removal having
\* happened), either none of the three exists yet or all three belong to
\* one and the same snapshot.
C2_FilesTogether ==
    (faults = 0 /\ \E p \in Procs : pc[p] \in CheckPcs)
        => \/ ~Exists(idxFile) /\ ~Exists(namesFile) /\ ~Exists(descFile)
           \/ \E s \in Schemas : FilesOf(s)

\* C3: once a load of a snapshot has returned (nothing failed, no file was
\* removed), the validity check evaluated against that snapshot is true, and
\* it is true again after every later load of it.
C3_ValidAfterBuild ==
    \A p \in Procs : (Returned(p) /\ faults = 0) => Valid(schema_json[p])

\* C4: after a load persisted the index for snapshot S, the validity check is
\* false for every candidate whose tables or descriptions differ from S, and
\* for every candidate once one of the three files is gone.
C4_StaleIsInvalid ==
    \A p \in Procs : Returned(p) =>
        \A c \in Schemas :
            (ToSet(c) # ToSet(schema_json[p]) \/ ~AllExist(idxFile, namesFile, descFile))
                => ~Valid(c)

C4_Witness ==
    \E p \in Procs :
        /\ Returned(p) /\ Len(schema_json[p]) = 2
        /\ Readable(idxFile) /\ Readable(namesFile) /\ Readable(descFile)
        /\ \E c \in Schemas : Len(c) = 1 /\ ToSet(c) \subseteq ToSet(schema_json[p])

C6_CheckNeverRaises ==
    [][\A p \in Procs :
          (pc[p] \in CheckPcs /\ pc'[p] # pc[p]) =>
              /\ pc'[p] \in CheckPcs \cup {"build", "read_index"}
              /\ outcome'[p] = outcome[p]
              /\ ( \/ pc[p] = "check_exists" /\ ~AllExist(idxFile, namesFile, descFile)
                   \/ pc[p] = "check_names" /\ ~Readable(namesFile)
                   \/ pc[p] = "check_desc" /\ ~Readable(descFile)
                   \/ pc[p] = "check_index" /\ ~Readable(idxFile) )
                 => pc'[p] = "build"]_vars

\* a load at build_index because table_names.json exists but cannot be read
C6_Witness ==
    \E p \in Procs :
        /\ pc[p] = "build"
        /\ namesFile = Corrupt /\ Exists(idxFile) /\ Exists(descFile)

\* C7: a load called again with the snapshot of the previous, returned load
\* (nothing failed, no file was removed) never is in build_index.
C7_RepeatOnlyReloads ==
    \A p \in Procs :
        (local[p].again /\ faults = 0) =>
            pc[p] \notin RebuildPcs /\ local[p].branch # "rebuilt"

\* C8: from the moment the branch of line 39-42 has been executed, and after
\* the load has returned, the engine's index holds as many vectors as the
\* catalog has tables (None holding none); and no candidate is valid against
\* an index file of another size.
C8_IndexSize ==
    /\ \A p \in Procs :
          (pc[p] \in {"write_names", "write_desc"} \/ Returned(p))
              => Ntotal(index[p]) = Len(schema_json[p])
    /\ \A c \in Schemas :
          (Readable(idxFile) /\ Len(idxFile.data) # Len(c)) => ~Valid(c)

\* an index of two vectors was built while the sidecars still name one table
C8_Witness ==
    \E p \in Procs :
        /\ pc[p] = "write_names" /\ local[p].branch = "rebuilt"
        /\ Ntotal(index[p]) = 2
        /\ Readable(namesFile) /\ Len(namesFile.data) = 1
        /\ Readable(descFile) /\ Len(descFile.data) = 1

\* C9: search does not raise; when embedding the query or querying the index
\* raised, it returns what the keyword fallback returns.
C9_SearchNeverRaises ==
    result.called =>
        /\ ~result.raised
        /\ result.vector = "raised" =>
              /\ result.path = "keyword"
              /\ result.hits = keyword_search(table_names[result.by], table_data[result.by],
                                              result.query, result.top_k)

C9_Witness ==
    /\ result.called /\ result.vector = "raised" /\ result.top_k > 0
    /\ result.hits # <<>>

\* C10: when the vector path gave no hit (index absent or empty, every
\* neighbour dropped, or it raised), search returns the list keyword_search
\* returns for the same engine state, query and top_k.
C10_FallbackEqualsKeyword ==
    (result.called /\ result.vector \in {"skipped", "raised", "no hits"}) =>
        result.hits = keyword_search(table_names[result.by], table_data[result.by],
                                     result.query, result.top_k)

\* every neighbour was dropped and the fallback found a table
C10_Witness ==
    /\ result.called /\ result.vector = "no hits"
    /\ result.hits # <<>>

\* C11: the list search returns is sorted by similarity_score, greatest
\* first, whichever path produced it.
C11_SortedByScore ==
    result.called =>
        \A i \in 1..(Len(result.hits) - 1) :
            result.hits[i].similarity_score >= result.hits[i + 1].similarity_score

\* the fallback returned two hits, the better one being the later table of
\* the catalog
C11_Witness ==
    /\ result.called /\ result.path = "keyword" /\ Len(result.hits) = 2
    /\ result.hits[1].table_name = table_names[result.by][2]
    /\ result.hits[1].similarity_score > result.hits[2].similarity_score

\* C13: search(query, k) returns at most max(k, 0) hits, so none for k <= 0.
C13_AtMostTopK ==
    result.called => Len(result.hits) <= Max(result.top_k, 0)

\* C12: when search has walked through the neighbours FAISS reported, every
\* hit it returns from them has a positive score and is the catalog entry of
\* a neighbour whose label lies inside the catalog; the neighbours with a
\* label of -1, a label beyond the catalog or a score <= 0 are left out
\* without an error, the others still being returned.
C12_DroppedSilently ==
    [][(sthread.pc = "collect" /\ sthread'.pc # "collect") =>
          LET names == table_names[sthread.by]
              data == table_data[sthread.by]
              nb == sthread.nb
              kept == { i \in 1..Len(nb) :
                          /\ nb[i] - 1 >= 0 /\ nb[i] - 1 < Len(names)
                          /\ ScoreAt(nb, sthread.sc, i) > 0 }
          IN /\ result'.called =>
                  /\ ~result'.raised /\ result'.path = "vector"
                  /\ Len(result'.hits) = Cardinality(kept)
                  /\ \A j \in 1..Len(result'.hits) :
                        /\ result'.hits[j].similarity_score > 0
                        /\ \E i \in kept :
                              result'.hits[j] =
                                  Hit(names[nb[i]], sthread.sc[nb[i]], data[nb[i]])
             /\ (\A i \in kept : nb[i] <= Len(data)) =>
                  /\ sthread'.vector # "raised"
                  /\ kept # {} => result'.called]_vars

\* after one load of two tables, FAISS reported two neighbours and search
\* returned one of them
C12_Witness ==
    /\ result.called /\ result.path = "vector" /\ Len(result.hits) = 1
    /\ calls = 1 /\ pc[result.by] = "idle"
    /\ Ntotal(index[result.by]) = 2

\* C15: once a load has returned (nothing failed, no file was removed), the
\* index file exists and holds as many vectors as the catalog just loaded
\* has tables, which is the length of both sidecars.
C15_IndexFileSize ==
    \A p \in Procs :
        (Returned(p) /\ faults = 0) =>
            /\ Readable(idxFile) /\ Readable(namesFile) /\ Readable(descFile)
            /\ Len(idxFile.data) = Len(schema_json[p])
            /\ Len(idxFile.data) = Len(namesFile.data)
            /\ Len(idxFile.data) = Len(descFile.data)

\* C16: once a load has returned, table_names and table_data are as long as
\* the catalog, position i holds the name of table i and the description
\* generated for it, and no name occurs twice.
C16_SnapshotInvariant ==
    \A p \in Procs :
        Returned(p) =>
            /\ Len(table_names[p]) = Len(table_data[p])
            /\ Len(table_names[p]) = Len(schema_json[p])
            /\ \A i \in 1..Len(table_names[p]) :
                  /\ table_names[p][i] = schema_json[p][i].table_name
                  /\ table_data[p][i] =
                        TableDesc(table_names[p][i], schema_json[p][i].columns)
            /\ \A i, j \in 1..Len(table_names[p]) :
                  i # j => table_names[p][i] # table_names[p][j]

\* a second load has returned and left two tables with their descriptions
C16_Witness ==
    \E p \in Procs :
        /\ Returned(p) /\ calls >= 2
        /\ table_names[p] = <<"USERS", "ORDERS">>
        /\ table_data[p] =
              << "Table USERS with columns: id (NUMBER, NOT NULL), email (VARCHAR2, NULL)",
                 "Table ORDERS with columns: order_id (NUMBER, NOT NULL), user_id (NUMBER, NOT NULL)" >>

\* C19: for the catalog {USERS: [id, email], ORDERS: [order_id, user_id]},
\* the query "find user email" and top_k = 5, when the vector path failed,
\* the first hit returned is USERS and its score is at least 10.
C19_ExampleFallback ==
    ( /\ result.called /\ result.vector = "raised"
      /\ result.query = "find user email" /\ result.top_k = DefaultTopK
      /\ table_names[result.by] = <<"USERS", "ORDERS">>
      /\ table_data[result.by] =
            DescsOf(<<Entry("USERS", UsersCols), Entry("ORDERS", OrdersCols)>>) )
        => /\ result.hits # <<>>
           /\ result.hits[1].table_name = "USERS"
           /\ result.hits[1].similarity_score >= 10

\* C20: a result of the keyword fallback consists of tables whose score,
\* 10 for the name test plus 3 for every query word of more than 2
\* characters found in the description, is positive, each with that score
\* and at most once; it has min(max(top_k, 0), number of such tables) hits,
\* and no table left out scores higher than a table returned.
C20_KeywordScoring ==
    (result.called /\ result.path = "keyword") =>
        LET names == table_names[result.by]
            data == table_data[result.by]
            q == Lower(result.query)
            words == Split(q)
            score == [i \in 1..Len(names) |->
                        (IF In(Lower(names[i]), q) \/ In(q, Lower(names[i]))
                         THEN 10 ELSE 0)
                        + 3 * Cardinality({ j \in 1..Len(words) :
                                  Len(words[j]) > 2 /\ In(words[j], Lower(data[i])) })]
            positive == { i \in 1..Len(names) : score[i] > 0 }
            hits == result.hits
        IN /\ Len(hits) = Min(Max(result.top_k, 0), Cardinality(positive))
           /\ \A j \in 1..Len(hits) :
                 \E i \in positive : hits[j] = Hit(names[i], score[i], data[i])
           /\ \A j, k \in 1..Len(hits) :
                 j # k => hits[j].table_name # hits[k].table_name
           /\ \A i \in positive :
                 (\A j \in 1..Len(hits) : hits[j].table_name # names[i])
                     => \A j \in 1..Len(hits) : hits[j].similarity_score >= score[i]

\* C14: when a request has ended because fetch_schema returned an error,
\* table_names, table_data, index and schema_loaded are what they were when
\* the request began.
C14_FetchFailureLeavesEngine ==
    (handler.pc = "done" /\ handler.failed = "fetch_schema")
        => EngineNow = handler.before

\* C17: in the /generate-sql flow a search that returned no table ends the
\* request with 404 and generate_sql is not called for it; a request whose
\* model name is rejected ends with 400 before search is invoked, and every
\* request that reaches search has a model of MISTRAL_MODELS.
C17_NotFoundBeforeGenerate ==
    handler.name = "generate_sql_endpoint" =>
        /\ (handler.searched /\ handler.found = 0 /\ handler.failed # "search")
              => (handler.pc = "done" /\ handler.status = 404 /\ ~handler.generated)
        /\ handler.failed = "model"
              => (handler.status = 400 /\ ~handler.searched /\ ~handler.generated)
        /\ handler.pc \in {"search", "read_schema", "generate"}
              => handler.model \in MISTRAL_MODELS
        /\ handler.generated => (handler.searched /\ handler.found > 0)
\* a loaded engine was searched, the search returned nothing, the request
\* ended with 404
C17_Witness ==
    /\ handler.name = "generate_sql_endpoint" /\ handler.pc = "done"
    /\ handler.searched /\ handler.found = 0
    /\ handler.status = 404 /\ handler.failed = "no tables"
    /\ schema_loaded /\ Len(table_names[Server]) > 0

\* C18: generate_sql never raises; of the pair it returns exactly one
\* component is None, the error on success (the reply parsed) and the SQL
\* on every failure; without an API key it returns the error and
\* requests.post was not called.
C18_PairNeverRaises ==
    handler.name = "generate_sql" =>
        LET ret == handler.returned
            success == /\ handler.api_key # ""
                       /\ handler.model \in MISTRAL_MODELS
                       /\ handler.http = "ok"
        IN /\ ~ret.raised
           /\ (ret.sql_query = NoneValue) # (ret.error = NoneValue)
           /\ success <=> ret.error = NoneValue
           /\ handler.api_key = ""
                 => /\ ~ret.posted
                    /\ ret.error =
                         Some("Mistral API key not found. Please check your .env file.")
\* the reply had no usable "choices": the last handler turned the exception
\* into an error message
C18_Witness ==
    /\ handler.name = "generate_sql" /\ handler.api_key # ""
    /\ handler.model \in MISTRAL_MODELS /\ handler.http = "malformed"
    /\ handler.returned.posted
    /\ handler.returned.error = Some("Unexpected error: malformed")

\* C21: a search with the empty query does not raise, and when the keyword
\* fallback answered it, it returned no hit.
C21_EmptyQueryNoHits ==
    (result.called /\ result.query = "") =>
        /\ ~result.raised
        /\ result.path = "keyword" => result.hits = <<>>

\* C22: in the request layer the body of /generate-sql, and so search, runs
\* only with schema_loaded true; the flag becomes true only when a
\* load_schema_data call made by the running request has returned without
\* raising, and stays true; a get_schema_search that could not load ends
\* the request with 500 or 503 and nothing was searched; with the flag true
\* get_schema_search does not call load_schema_data.
InBody == handler.pc \in {"validate", "search", "read_schema", "generate"}
C22_SearchOnlyAfterLoad ==
    /\ [](handler.name = "generate_sql_endpoint" =>
            /\ InBody => schema_loaded
            /\ handler.searched => schema_loaded
            /\ handler.failed \in {"fetch_schema", "load_schema_data"}
                  => (handler.status \in {500, 503} /\ ~handler.searched))
    /\ [][/\ schema_loaded => schema_loaded'
          /\ (~schema_loaded /\ schema_loaded')
                => /\ calls > handler.loads /\ pc[Server] = "idle"
                   /\ outcome[Server] \in {"reloaded", "rebuilt"}
                   /\ handler.pc \in {"local_load", "oracle_load", "load"}
          /\ (handler.name = "generate_sql_endpoint" /\ calls' > calls)
                => ~schema_loaded]_vars
\* a request found the flag false, loaded the local file and went on to
\* search the engine it had loaded
C22_Witness ==
    /\ handler.name = "generate_sql_endpoint" /\ handler.pc = "read_schema"
    /\ handler.searched /\ schema_loaded
    /\ handler.schema_json # <<>> /\ calls = handler.loads + 1

\* C23: whenever the validity check of a load returns true (the step from
\* line 68 to line 40), the index file holds the vectors of the engine's
\* table_data, Encode of its descriptions in their order; this over every
\* sequence of loads, loads that raised and files removed.
C23_ValidMeansOwnVectors ==
    [][\A p \in Procs :
          (pc[p] = "check_index" /\ pc'[p] = "read_index")
              => idxFile = File(Encode(table_data[p]))]_vars

\* C24: whenever schema_loaded is true and no load_schema_data call is
\* running, table_names and table_data have the same length and the index
\* is None with an empty catalog or holds the vectors of the current
\* table_data.
C24_LoadedEngineConsistent ==
    (schema_loaded /\ pc[Server] = "idle") =>
        /\ Len(table_names[Server]) = Len(table_data[Server])
        /\ \/ index[Server] = None /\ table_names[Server] = <<>>
           \/ index[Server] = IndexFlatIP(Encode(table_data[Server]))

====
